---- MODULE Spec2Model ----
(***************************************************************************)
(* Model of the Student Attendance API (src/main.py): the POST /attendance *)
(* handler create_attendance together with the request validation done by  *)
(* AttendanceIn, and the GET /attendance handler list_attendance.          *)
(*                                                                         *)
(* Text is a sequence of one-character strings, so that length, prefix,    *)
(* truncation and lexicographic comparison are computed, not assumed.      *)
(* An optional value is a sequence of length 0 (None) or 1.                *)
(***************************************************************************)
EXTENDS Integers, Sequences, FiniteSets

\* ------------------------------------------------------------------ bounds
\* number of submissions processed (the clock advances once per submission)
MaxClock == 3
\* largest ?limit= query parameter tried
MaxLimit == 3
\* longest exception message tried
MaxMsgLen == 121

\* ------------------------------------------------------- program constants
\* str(e)[:120]
TruncLen == 120
\* requests.post(..., timeout=10)
Timeout == 10

\* ------------------------------------------------------------ text helpers
None == <<>>

Some(x) == <<x>>

Min(a, b) == IF a <= b THEN a ELSE b

Digits == <<"0", "1", "2", "3", "4", "5", "6", "7", "8", "9">>

Digit(n) == Digits[n + 1]

\* code point of a character of a timestamp text
Ord(c) == IF c = "." THEN 46 ELSE 48 + (CHOOSE i \in 0..9 : Digits[i + 1] = c)

\* Python's str < str: lexicographic by code point, a proper prefix is smaller
TextLess(a, b) ==
    \E k \in 0..Min(Len(a), Len(b)) :
        /\ \A i \in 1..k : a[i] = b[i]
        /\ \/ k = Len(a) /\ k < Len(b)
           \/ k < Len(a) /\ k < Len(b) /\ Ord(a[k + 1]) < Ord(b[k + 1])

StartsWith(s, p) == Len(p) <= Len(s) /\ SubSeq(s, 1, Len(p)) = p

Repeat(c, n) == [i \in 1..n |-> c]

\* str(n) for a small natural number
Str(n) == IF n < 10 THEN <<Digit(n)>> ELSE <<Digit(n \div 10), Digit(n % 10)>>

T_skipped == <<"s", "k", "i", "p", "p", "e", "d">>

T_ok == <<"o", "k">>

T_error == <<"e", "r", "r", "o", "r", ":", " ">>

T_qr == <<"q", "r">>

T_manual == <<"m", "a", "n", "u", "a", "l">>

T_Ana == <<"A", "n", "a">>

T_123 == <<"1", "2", "3">>

T_CS == <<"C", "S">>

T_url == <<"h", "t", "t", "p", "s", ":", "/", "/", "s">>

T_notadate == <<"n", "o", "p", "e">>

\* --------------------------------------------------------------- datetimes
\* A datetime is a count of half seconds.  isoformat() prints the seconds on
\* two digits and appends the fraction only when it is not zero, as
\* datetime.isoformat() does with microseconds.
Datetimes == 0..MaxClock

isoformat(t) ==
    <<Digit((t \div 2) \div 10), Digit((t \div 2) % 10)>>
        \o (IF t % 2 = 1 THEN <<".", "5">> ELSE <<>>)

\* datetime parsing of a text: None when the text is not a timestamp
fromisoformat(s) ==
    IF \E t \in Datetimes : isoformat(t) = s
    THEN Some(CHOOSE t \in Datetimes : isoformat(t) = s)
    ELSE None

\* a value of the data dict under "scanned_at": None, a datetime or a str
NoneVal == [kind |-> "none", t |-> 0, s |-> <<>>]

DatetimeVal(t) == [kind |-> "datetime", t |-> t, s |-> <<>>]

StrVal(s) == [kind |-> "str", t |-> 0, s |-> s]

\* ------------------------------------------------------------ request body
\* a JSON member of the request body
Missing == [kind |-> "missing", s |-> <<>>]

Null == [kind |-> "null", s |-> <<>>]

Number == [kind |-> "number", s |-> <<>>]

String(s) == [kind |-> "string", s |-> s]

Body(name, nisn, major, scanned_at, source) ==
    [name |-> name, nisn |-> nisn, major |-> major,
     scanned_at |-> scanned_at, source |-> source]

\* the timestamp a client supplies in the bodies that carry one
SuppliedAt == 1

Bodies ==
    { Body(String(T_Ana), String(T_123), String(T_CS), Missing, Missing),
      Body(String(T_Ana), String(T_123), String(T_CS),
           String(isoformat(SuppliedAt)), String(T_manual)),
      Body(String(<<>>), String(<<>>), String(<<>>), Null, Missing),
      Body(String(T_Ana), String(T_123), String(T_CS),
           String(T_notadate), Missing),
      Body(String(T_Ana), Missing, String(T_CS), Missing, Missing),
      Body(Number, String(T_123), Null, Missing, Missing) }

NoBody == Body(Missing, Missing, Missing, Missing, Missing)

VARIABLES now, sheets_url, store, request, calls, response

vars == <<now, sheets_url, store, request, calls, response>>


\* GOOGLE_SHEETS_WEBAPP_URL: unset, set to the empty string, or set to a URL
Unset == [set |-> FALSE, val |-> <<>>]

EnvValues == {Unset, [set |-> TRUE, val |-> <<>>], [set |-> TRUE, val |-> T_url]}

\* `if sheets_url:` - None and "" are both falsy
Truthy(url) == url.set /\ url.val # <<>>

\* variant: only the presence of the field is checked
ValidStr_PresenceOnly(v) == v.kind # "missing"

\* ------------------------------------------------- AttendanceIn validation
\* a required `str` field: present and a JSON string (no coercion, no
\* length constraint)
ValidStr(v) == v.kind = "string"

\* Optional[str]
ValidOptionalStr(v) == v.kind \in {"missing", "null", "string"}

\* Optional[datetime]: absent, null, or a text that parses as a timestamp
\* (numeric timestamps are not among the bodies tried)
ValidOptionalDatetime(v) ==
    \/ v.kind \in {"missing", "null"}
    \/ v.kind = "string" /\ fromisoformat(v.s) # None

\* the request reaches create_attendance only when the body validates;
\* otherwise the framework answers 422
Validate(body) ==
    /\ ValidStr(body.name)
    /\ ValidStr(body.nisn)
    /\ ValidStr(body.major)
    /\ ValidOptionalDatetime(body.scanned_at)
    /\ ValidOptionalStr(body.source)

\* payload.model_dump(): defaults applied, scanned_at parsed to a datetime
model_dump(body) ==
    [name |-> body.name,
     nisn |-> body.nisn,
     major |-> body.major,
     scanned_at |-> IF body.scanned_at.kind = "string"
                    THEN DatetimeVal(fromisoformat(body.scanned_at.s)[1])
                    ELSE NoneVal,
     source |-> IF body.source.kind = "missing" THEN String(T_qr)
                ELSE body.source]

\* ------------------------------------------------------- create_attendance
\* truthiness of data.get("scanned_at")
TruthyVal(v) == v.kind = "datetime" \/ (v.kind = "str" /\ v.s # <<>>)

\* variant: the value of the payload is used as it is
ResolveScannedAt_Unresolved(v, clock) == v

\* scanned_at = data.get("scanned_at") or now; a str is parsed, and replaced
\* by now when it does not parse
ResolveScannedAt(v, clock) ==
    LET first == IF TruthyVal(v) THEN v ELSE DatetimeVal(clock)
    IN  IF first.kind = "str"
        THEN IF fromisoformat(first.s) # None
             THEN DatetimeVal(fromisoformat(first.s)[1])
             ELSE DatetimeVal(clock)
        ELSE first

\* Storage Gateway insert: the store assigns the identifier and, if it
\* provides them, the creation timestamp
create_document(st, data, clock, stamped) ==
    [store |-> Append(st, [_id |-> Len(st) + 1,
                           name |-> data.name,
                           nisn |-> data.nisn,
                           major |-> data.major,
                           scanned_at |-> data.scanned_at,
                           source |-> data.source,
                           created_at |-> IF stamped THEN Some(clock) ELSE None]),
     id |-> Str(Len(st) + 1)]

\* try: inserted_id = create_document(...)  except Exception: inserted_id = None
InsertedId(ins, id) == IF ins = "raised" THEN None ELSE Some(id)

\* variant: the message is not truncated
Truncate_None(msg) == msg

\* str(e)[:120]
Truncate(msg) == SubSeq(msg, 1, Min(TruncLen, Len(msg)))

\* what the POST to the webhook can do: answer 2xx, answer non-2xx (then
\* raise_for_status raises), or raise (network error, timeout)
MsgLens == {0, TruncLen, MaxMsgLen}

\* str(e) of the HTTPError raised by raise_for_status()
T_http == Repeat("h", 45)

PostOutcomes ==
    {[kind |-> "success", msg |-> <<>>], [kind |-> "http_error", msg |-> T_http]}
        \cup {[kind |-> "exception", msg |-> Repeat("x", n)] : n \in MsgLens}

\* str(e) of the AttributeError raised by None.isoformat()
T_attr == Repeat("a", 48)

\* the json= argument of requests.post
ForwardJson(data, scanned_at) ==
    [name |-> data.name,
     nisn |-> data.nisn,
     major |-> data.major,
     scanned_at |-> isoformat(scanned_at.t),
     source |-> data.source]

\* variant: raise_for_status() is not called
ForwardStatus_NoRaiseForStatus(url, scanned_at, post) ==
    IF ~Truthy(url) THEN T_skipped
    ELSE IF scanned_at.kind # "datetime" THEN T_error \o Truncate(T_attr)
    ELSE IF post.kind = "exception" THEN T_error \o Truncate(post.msg)
    ELSE T_ok

\* forward_status: "skipped" unless sheets_url is truthy; inside the try, any
\* exception (building the payload, the POST, raise_for_status) gives
\* "error: " + the truncated message, and otherwise "ok"
ForwardStatus(url, scanned_at, post) ==
    IF ~Truthy(url) THEN T_skipped
    ELSE IF scanned_at.kind # "datetime" THEN T_error \o Truncate(T_attr)
    ELSE IF post.kind = "exception" THEN T_error \o Truncate(post.msg)
    ELSE IF post.kind = "http_error" THEN T_error \o Truncate(post.msg)
    ELSE T_ok

\* variant: nothing is forwarded when the insert failed
OutboundCalls_SkipOnFailure(url, data, scanned_at, ins, post) ==
    <<[fn |-> "create_document", arg |-> data, outcome |-> ins, msg |-> <<>>]>>
        \o (IF Truthy(url) /\ scanned_at.kind = "datetime" /\ ins = "ok"
            THEN <<[fn |-> "requests.post",
                    arg |-> [url |-> url.val,
                             json |-> ForwardJson(data, scanned_at),
                             timeout |-> Timeout],
                    outcome |-> post.kind, msg |-> post.msg]>>
            ELSE <<>>)

\* the calls the handler makes to its collaborators, in program order
OutboundCalls(url, data, scanned_at, ins, post) ==
    <<[fn |-> "create_document", arg |-> data, outcome |-> ins, msg |-> <<>>]>>
        \o (IF Truthy(url) /\ scanned_at.kind = "datetime"
            THEN <<[fn |-> "requests.post",
                    arg |-> [url |-> url.val,
                             json |-> ForwardJson(data, scanned_at),
                             timeout |-> Timeout],
                    outcome |-> post.kind, msg |-> post.msg]>>
            ELSE <<>>)

Response(status, ok, id, forward, result) ==
    [status |-> status, ok |-> ok, id |-> id,
     forward_to_sheets |-> forward, result |-> result]

NoResponse == Response(0, FALSE, None, <<>>, <<>>)

Http422 == Response(422, FALSE, None, <<>>, <<>>)

Http500 == Response(500, FALSE, None, <<>>, <<>>)

\* variant: the insert is not wrapped in try/except
CreateAttendanceResponse_Raise(ins, inserted_id, forward_status) ==
    IF ins = "raised" THEN Http500
    ELSE Response(200, TRUE, inserted_id, forward_status, <<>>)

\* return {"ok": True, "id": inserted_id, "forward_to_sheets": forward_status}
CreateAttendanceResponse(ins, inserted_id, forward_status) ==
    Response(200, TRUE, inserted_id, forward_status, <<>>)

\* The outcomes of the collaborators are drawn only where the handler
\* consults them: no insert and no POST for a rejected body, no POST when
\* no endpoint is configured, no creation timestamp for a failed insert.
create_attendance ==
    /\ now < MaxClock
    /\ \E body \in Bodies :
          /\ request' = [op |-> "post", body |-> body, limit |-> 0]
          /\ now' = now + 1
          /\ IF ~Validate(body)
             THEN /\ response' = Http422
                  /\ calls' = <<>>
                  /\ store' = store
             ELSE \E ins \in {"ok", "raised"}, stamped \in BOOLEAN,
                     post \in PostOutcomes :
                  /\ ins = "raised" => ~stamped
                  /\ ~Truthy(sheets_url) => post.kind = "success"
                  /\ LET data0 == model_dump(body)
                         scanned_at == ResolveScannedAt(data0.scanned_at, now)
                         data == [data0 EXCEPT !.scanned_at = scanned_at]
                         created == create_document(store, data, now, stamped)
                         inserted_id == InsertedId(ins, created.id)
                         forward_status == ForwardStatus(sheets_url, scanned_at, post)
                     IN  /\ store' = IF ins = "ok" THEN created.store ELSE store
                         /\ calls' = OutboundCalls(sheets_url, data, scanned_at,
                                                   ins, post)
                         /\ response' = CreateAttendanceResponse(ins, inserted_id,
                                                                 forward_status)
    /\ UNCHANGED sheets_url

\* --------------------------------------------------------- list_attendance
\* Storage Gateway find: up to `limit` of the stored documents, in the
\* store's order; the call names no sort, so which documents come back when
\* more than `limit` are stored is the store's choice
get_documents(st, limit) ==
    LET k == Min(limit, Len(st))
        picks == {f \in [1..k -> 1..Len(st)] :
                      \A i, j \in 1..k : i < j => f[i] < f[j]}
    IN  {[i \in 1..k |-> st[f[i]]] : f \in picks}

\* the loop body: _id becomes the text id, datetimes become ISO text
ConvertDoc(d) ==
    [id |-> Str(d._id),
     name |-> d.name,
     nisn |-> d.nisn,
     major |-> d.major,
     scanned_at |-> IF d.scanned_at.kind = "datetime"
                    THEN StrVal(isoformat(d.scanned_at.t))
                    ELSE d.scanned_at,
     source |-> d.source,
     created_at |-> IF d.created_at = None THEN None
                    ELSE Some(isoformat(d.created_at[1]))]

\* key=lambda x: x.get("created_at", "")
SortKey(x) == IF x.created_at = None THEN <<>> ELSE x.created_at[1]

\* x goes after every element whose key is >= its own (stable, descending)
InsertDesc(sorted, x) ==
    LET before == {i \in 1..Len(sorted) : ~TextLess(SortKey(sorted[i]), SortKey(x))}
        n == Cardinality(before)
    IN  SubSeq(sorted, 1, n) \o <<x>> \o SubSeq(sorted, n + 1, Len(sorted))

\* variant: the result is returned in the order the store gave it
SortByCreatedAt_Unsorted(seq) == seq

RECURSIVE SortByCreatedAt(_)
\* result.sort(key=..., reverse=True)
SortByCreatedAt(seq) ==
    IF seq = <<>> THEN <<>>
    ELSE InsertDesc(SortByCreatedAt(SubSeq(seq, 1, Len(seq) - 1)), seq[Len(seq)])

\* the try block: convert each document, sort, return
ListResult(docs) ==
    Response(200, TRUE, None, <<>>,
             SortByCreatedAt([i \in 1..Len(docs) |-> ConvertDoc(docs[i])]))

\* variant: the storage failure is raised to the caller
ListFallback_Raise == Http500

\* except Exception: return []
ListFallback == Response(200, TRUE, None, <<>>, <<>>)

list_attendance ==
    /\ \E limit \in 0..MaxLimit, find \in {"ok", "raised"} :
          /\ request' = [op |-> "get", body |-> NoBody, limit |-> limit]
          /\ calls' = <<[fn |-> "get_documents", arg |-> [limit |-> limit],
                         outcome |-> find, msg |-> <<>>]>>
          /\ IF find = "raised"
             THEN response' = ListFallback
             ELSE \E docs \in get_documents(store, limit) :
                      response' = ListResult(docs)
    /\ UNCHANGED <<now, sheets_url, store>>

\* ----------------------------------------------------------- specification
Init ==
    /\ now = 0
    /\ sheets_url \in EnvValues
    /\ store = <<>>
    /\ request = [op |-> "none", body |-> NoBody, limit |-> 0]
    /\ calls = <<>>
    /\ response = NoResponse

Next == create_attendance \/ list_attendance

Spec == Init /\ [][Next]_vars


\* ------------------------------------------------------------------ claims
\* the last request was a submission that passed request validation
Submitted == request.op = "post" /\ Validate(request.body)

\* the last request was a listing
Listed == request.op = "get"

Configured == Truthy(sheets_url)

\* the submission made its POST and the POST failed
ForwardFailed ==
    /\ Len(calls) = 2
    /\ calls[2].outcome \in {"http_error", "exception"}

ForwardSucceeded == Len(calls) = 2 /\ calls[2].outcome = "success"

\* C1: every validated submission is answered 200 with ok = true, whatever
\* the insert and the POST did.
C1_AlwaysOk ==
    Submitted => response.status = 200 /\ response.ok = TRUE

C1_Witness ==
    /\ Submitted
    /\ calls[1].outcome = "raised"
    /\ ForwardFailed
    /\ calls[2].outcome = "exception"
    /\ response.ok = TRUE

NthNewest(n) ==
    CHOOSE i \in 1..Len(store) :
        Cardinality({j \in 1..Len(store) :
                         store[j].created_at[1] > store[i].created_at[1]}) = n

\* C3: a listing with limit N over a store of more than N records, all with
\* distinct creation times, returns the N most recently created records,
\* newest first.
C3_MostRecentFirst ==
    ( /\ Listed
      /\ calls[1].outcome = "ok"
      /\ Len(store) > request.limit
      /\ \A i \in 1..Len(store) : store[i].created_at # None
      /\ \A i, j \in 1..Len(store) :
             i # j => store[i].created_at # store[j].created_at )
    => /\ Len(response.result) = request.limit
       /\ \A n \in 1..request.limit :
              response.result[n].id = Str(store[NthNewest(n - 1)]._id)

\* the creation time a returned record carries
CreatedOf(r) == fromisoformat(r.created_at[1])[1]

C5_StorageDown ==
    /\ (Submitted /\ calls[1].outcome = "raised")
           => /\ response.status = 200
              /\ response.id = None
              /\ (response.forward_to_sheets = T_skipped) <=> ~Configured
              /\ ForwardSucceeded => response.forward_to_sheets = T_ok
              /\ ForwardFailed => StartsWith(response.forward_to_sheets, T_error)
    /\ (Listed /\ calls[1].outcome = "raised")
           => /\ response.status = 200
              /\ response.result = <<>>

C5_Witness ==
    /\ Listed
    /\ calls[1].outcome = "raised"
    /\ store # <<>>
    /\ response.status = 200
    /\ response.result = <<>>

\* the handler has handed a record to create_document
PersistAttempted == Len(calls) >= 1 /\ calls[1].fn = "create_document"

\* C6 (as stated): whenever persistence is attempted, name, nisn and major
\* are non-empty strings.
C6_NonEmptyFields ==
    PersistAttempted =>
        /\ calls[1].arg.name.kind = "string" /\ calls[1].arg.name.s # <<>>
        /\ calls[1].arg.nisn.kind = "string" /\ calls[1].arg.nisn.s # <<>>
        /\ calls[1].arg.major.kind = "string" /\ calls[1].arg.major.s # <<>>

\* C6 (amended): whenever persistence is attempted, name, nisn and major
\* are present and are strings (possibly empty).
C6_StringFields ==
    PersistAttempted =>
        /\ calls[1].arg.name.kind = "string"
        /\ calls[1].arg.nisn.kind = "string"
        /\ calls[1].arg.major.kind = "string"

C6_Witness ==
    /\ PersistAttempted
    /\ calls[1].arg.name = String(<<>>)
    /\ calls[1].arg.nisn = String(<<>>)
    /\ calls[1].arg.major = String(<<>>)

\* C7: a submission whose scanned_at is a text that is not a timestamp is
\* answered 200 with ok = true, and is stored with scanned_at set to the
\* time of processing.
C7_UnparsableFallsBack ==
    ( /\ request.op = "post"
      /\ request.body.scanned_at.kind = "string"
      /\ fromisoformat(request.body.scanned_at.s) = None )
    => /\ response.status = 200
       /\ response.ok = TRUE
       /\ PersistAttempted
       /\ calls[1].arg.scanned_at = DatetimeVal(now - 1)

C9_ScannedAtResolved ==
    Submitted =>
        /\ PersistAttempted
        /\ calls[1].arg.scanned_at.kind = "datetime"
        /\ Len(calls) = 2 =>
               calls[2].arg.json.scanned_at = isoformat(calls[1].arg.scanned_at.t)

C9_Witness ==
    /\ Submitted
    /\ request.body.scanned_at.kind = "missing"
    /\ Len(calls) = 2
    /\ calls[1].arg.scanned_at = DatetimeVal(now - 1)
    /\ calls[2].arg.json.scanned_at = isoformat(now - 1)

\* C10: a submission calls create_document first and exactly once, then
\* makes exactly one POST when an endpoint is configured and none otherwise,
\* whether or not the insert succeeded.
C10_OneInsertThenOnePost ==
    Submitted =>
        /\ PersistAttempted
        /\ Configured => (Len(calls) = 2 /\ calls[2].fn = "requests.post")
        /\ ~Configured => Len(calls) = 1

C10_Witness ==
    /\ Submitted
    /\ Configured
    /\ calls[1].fn = "create_document"
    /\ calls[1].outcome = "raised"
    /\ Len(calls) = 2
    /\ calls[2].fn = "requests.post"

====
